---- MODULE Spec2Model ----
(***************************************************************************)
(* Model of app.py, a Streamlit personal-finance dashboard.  Five ledgers  *)
(* live in st.session_state and are mirrored in one Excel workbook with    *)
(* five named sheets.  Every user interaction runs the script from the     *)
(* top: upload block, load_data(), then the tabs with their forms.         *)
(* A script run is modelled in two consecutive steps, Top (upload block   *)
(* and load_data) and Tabs (overview and the five manage_* handlers); pc   *)
(* is the position of the script between them.                             *)
(***************************************************************************)
EXTENDS Integers, Sequences, FiniteSets, TLC

\* ------------------------------------------------------------------ bounds
MaxRows == 3      \* rows held by the five in-memory ledgers together
MaxVal == 1       \* largest number a user types into a number_input
MaxFaults == 1    \* I/O failures injected in one behaviour

\* --------------------------------------------------------------- constants
SHEET_BANK == "BankAccounts"
SHEET_MUTUAL == "MutualFunds"
SHEET_STOCKS == "StockHoldings"
SHEET_UDHARI == "Udhari"
SHEET_PF == "ProvisionFund"

\* The order in which load_data, save_data and the upload block go through
\* the sheets.
SheetOrder == <<SHEET_BANK, SHEET_MUTUAL, SHEET_STOCKS, SHEET_UDHARI, SHEET_PF>>

SheetSet == {SheetOrder[i] : i \in 1..Len(SheetOrder)}

\* ------------------------------------------------------------------- text
\* A text is a sequence of characters; " " is whitespace, "a" a lower-case
\* letter and "A" its upper-case form.
\* The texts a user types into a text_input: nothing, whitespace only, a
\* clean name, a name with whitespace around it.
TextInputs == {<<>>, <<" ">>, <<"a">>, <<" ", "a", " ">>}

RECURSIVE lstrip(_)
lstrip(s) == IF s # <<>> /\ Head(s) = " " THEN lstrip(Tail(s)) ELSE s

RECURSIVE rstrip(_)
rstrip(s) ==
  IF s # <<>> /\ s[Len(s)] = " " THEN rstrip(SubSeq(s, 1, Len(s) - 1)) ELSE s

\* str.strip()
strip(s) == rstrip(lstrip(s))

\* str.upper()
upper(s) == [i \in 1..Len(s) |-> IF s[i] = "a" THEN "A" ELSE s[i]]

\* ---------------------------------------------------------------- numbers
Values == (0 - 1)..MaxVal

\* The values st.number_input can hand to the script: none below a
\* min_value.  min_value is the set of the lower limits given: {} or {0}.
number_input(min_value) == {v \in Values : \A m \in min_value : v >= m}

\* validate_positive_number with its test left out
validate_positive_number_unchecked(value) == TRUE

validate_positive_number(value) == ~(value < 0)

\* ---------------------------------------------------------------- ledgers
\* A row of a dataframe: the text column and the numeric column.
Row(name, value) == [name |-> name, value |-> value]

\* The five empty dataframes put into st.session_state at start.
EmptyLedgers == [s \in SheetSet |-> <<>>]

\* drop that takes the label for a 1-based position
drop_off_by_one(df, i) ==
  [k \in 1..(Len(df) - 1) |-> IF k < i THEN df[k] ELSE df[k + 1]]

\* df.drop(i).reset_index(drop=True), i a 0-based position
drop(df, i) ==
  [k \in 1..(Len(df) - 1) |-> IF k <= i THEN df[k] ELSE df[k + 1]]

\* pd.concat([df, pd.DataFrame([new_row])], ignore_index=True)
concat(df, new_row) == Append(df, new_row)

\* st.session_state.<x>_df.at[i, ...] = ... for both columns
set_at(df, i, name, value) == [df EXCEPT ![i + 1] = Row(name, value)]

RECURSIVE TotalRowsFrom(_, _)
TotalRowsFrom(st, i) ==
  IF i > Len(SheetOrder) THEN 0
  ELSE Len(st[SheetOrder[i]]) + TotalRowsFrom(st, i + 1)

TotalRows(st) == TotalRowsFrom(st, 1)

\* --------------------------------------------------------------- workbook
\* The backing file or an uploaded file: absent, not a readable workbook,
\* or a workbook holding the sheets in `has`.
Workbook(kind, has, data) == [kind |-> kind, has |-> has, data |-> data]

NoFile == Workbook("absent", {}, EmptyLedgers)

Corrupt == Workbook("corrupt", {}, EmptyLedgers)

\* The workbook with the first n sheets of st, in SheetOrder.
Written(st, n) ==
  LET has == {SheetOrder[i] : i \in 1..n}
  IN Workbook("xlsx", has, [s \in SheetSet |-> IF s \in has THEN st[s] ELSE <<>>])

\* The five pd.read_excel assignments in a row, from sheet number i on; the
\* first sheet the workbook lacks raises and ends the sequence.
RECURSIVE read_sheets(_, _, _)
read_sheets(st, xls, i) ==
  IF i > Len(SheetOrder) THEN [st |-> st, ok |-> TRUE]
  ELSE IF SheetOrder[i] \in xls.has
       THEN read_sheets([st EXCEPT ![SheetOrder[i]] = xls.data[SheetOrder[i]]],
                        xls, i + 1)
       ELSE [st |-> st, ok |-> FALSE]

load_data(st, f) ==
  IF f.kind = "absent" THEN [st |-> st, err |-> "none"]
  ELSE IF f.kind = "corrupt" THEN [st |-> st, err |-> "LoadFailure"]
  ELSE LET r == read_sheets(st, f, 1)
       IN [st |-> r.st, err |-> IF r.ok THEN "none" ELSE "LoadFailure"]

\* What a write of the backing file can come to.  "ok": written whole.
\* "denied": the file could not be opened for writing and is as before.
\* "truncated": the file was opened for writing, which empties it, and the
\* write broke off before the workbook was complete.
WriteOutcomes == {"ok", "denied", "truncated"}

save_data(st, f, o) ==
  IF o = "ok" THEN [f |-> Written(st, Len(SheetOrder)), io |-> "ok"]
  ELSE IF o = "denied" THEN [f |-> f, io |-> "SaveFailure"]
  ELSE [f |-> Corrupt, io |-> "SaveFailure"]

\* --------------------------------------------------------------- overview
RECURSIVE sum(_)
sum(df) == IF df = <<>> THEN 0 ELSE Head(df).value + sum(Tail(df))

\* <column>.sum() if not df.empty else 0
total_of(df) == IF df # <<>> THEN sum(df) ELSE 0

\* financial_overview whose second wealth line leaves the stocks out
financial_overview_without_stocks(st) ==
  LET total_bank == total_of(st[SHEET_BANK])
      total_mutual == total_of(st[SHEET_MUTUAL])
      total_stocks == total_of(st[SHEET_STOCKS])
      total_udhari == total_of(st[SHEET_UDHARI])
      total_pf == total_of(st[SHEET_PF])
      udahri_cash == total_bank + total_udhari
      udhari_cash_stock == udahri_cash + total_mutual
      total_wealth ==
        total_bank + total_mutual + total_stocks + total_udhari + total_pf
  IN [metrics |-> <<total_bank, total_mutual, total_stocks, total_udhari,
                    total_pf>>,
      summary |-> <<udahri_cash, udhari_cash_stock, total_wealth>>,
      asset_data |-> << <<"Bank Accounts", total_bank>>,
                        <<"Mutual Funds", total_mutual>>,
                        <<"Stock Holdings", total_stocks>>,
                        <<"Provision Fund", total_pf>>,
                        <<"Udhari", total_udhari>> >>]

\* The metrics, the three wealth lines and the pie chart's asset_data that
\* financial_overview() puts on the page.
financial_overview(st) ==
  LET total_bank == total_of(st[SHEET_BANK])
      total_mutual == total_of(st[SHEET_MUTUAL])
      total_stocks == total_of(st[SHEET_STOCKS])
      total_udhari == total_of(st[SHEET_UDHARI])
      total_pf == total_of(st[SHEET_PF])
      udahri_cash == total_bank + total_udhari
      udhari_cash_stock == udahri_cash + total_mutual + total_stocks
      total_wealth ==
        total_bank + total_mutual + total_stocks + total_udhari + total_pf
  IN [metrics |-> <<total_bank, total_mutual, total_stocks, total_udhari,
                    total_pf>>,
      summary |-> <<udahri_cash, udhari_cash_stock, total_wealth>>,
      asset_data |-> << <<"Bank Accounts", total_bank>>,
                        <<"Mutual Funds", total_mutual>>,
                        <<"Stock Holdings", total_stocks>>,
                        <<"Provision Fund", total_pf>>,
                        <<"Udhari", total_udhari>> >>]

NothingShown == financial_overview(EmptyLedgers)

\* ----------------------------------------------------------------- events
\* What the browser sends with the run it triggers: the button pressed and
\* the values of the widgets of its form.  pos is the 0-based row chosen in
\* the selectbox.  typedName / typedValue: whether the user changed the
\* field of the edit form, or left it as the form showed it.
Event(kind, sheet, pos, name, value, typedName, typedValue) ==
  [kind |-> kind, sheet |-> sheet, pos |-> pos, name |-> name,
   value |-> value, typedName |-> typedName, typedValue |-> typedValue]

NoEvent == Event("none", "", 0, <<>>, 0, FALSE, FALSE)

\* ------------------------------------------------------- the five add forms
\* min_value of the number_input of the add form
AddMinValue(sheet) == IF sheet = SHEET_MUTUAL THEN {} ELSE {0}

\* whether the add handler calls validate_positive_number
AddValidatesNumber(sheet) == sheet # SHEET_STOCKS

\* the text the add handler puts into new_row
AddStoredName(sheet, text) == IF sheet = SHEET_STOCKS THEN text ELSE strip(text)

\* whether st.rerun() follows a rejected add as well
AddRerunsWhenRejected(sheet) == sheet = SHEET_MUTUAL

\* ------------------------------------------------------ the five edit forms
\* the text the save handler stores
EditStoredName(sheet, text) ==
  IF sheet = SHEET_STOCKS THEN upper(strip(text)) ELSE strip(text)

\* whether the save handler calls validate_positive_number
EditValidatesNumber(sheet) == sheet # SHEET_STOCKS

\* value= of the number_input of the edit form; without one the widget
\* starts at its min_value
EditDefaultValue(sheet, row) == IF sheet = SHEET_STOCKS THEN 0 ELSE row.value

\* value= of the text_input of the edit form
EditDefaultName(sheet, row) == row.name

\* whether st.rerun() follows an accepted save
EditReruns(sheet) == sheet \in {SHEET_BANK, SHEET_MUTUAL, SHEET_STOCKS}

\* ---------------------------------------------------------------- handlers
Result(st, f, rerun, err, io) ==
  [st |-> st, f |-> f, rerun |-> rerun, err |-> err, io |-> io]

\* add_form that tests the number before the text
add_form_number_first(sheet, st, f, e, o) ==
  LET df == st[sheet]
  IN IF AddValidatesNumber(sheet) /\ ~validate_positive_number(e.value)
     THEN Result(st, f, AddRerunsWhenRejected(sheet), "NegativeValue", "none")
     ELSE IF strip(e.name) = <<>>
     THEN Result(st, f, AddRerunsWhenRejected(sheet), "EmptyField", "none")
     ELSE LET new_row == Row(AddStoredName(sheet, e.name), e.value)
              st2 == [st EXCEPT ![sheet] = concat(df, new_row)]
              w == save_data(st2, f, o)
          IN Result(st2, w.f, TRUE, "none", w.io)

\* `if submitted:` of the add form of a sheet
add_form(sheet, st, f, e, o) ==
  LET df == st[sheet]
  IN IF strip(e.name) = <<>>
     THEN Result(st, f, AddRerunsWhenRejected(sheet), "EmptyField", "none")
     ELSE IF AddValidatesNumber(sheet) /\ ~validate_positive_number(e.value)
     THEN Result(st, f, AddRerunsWhenRejected(sheet), "NegativeValue", "none")
     ELSE LET new_row == Row(AddStoredName(sheet, e.name), e.value)
              st2 == [st EXCEPT ![sheet] = concat(df, new_row)]
              w == save_data(st2, f, o)
          IN Result(st2, w.f, TRUE, "none", w.io)

\* `if save_btn:` of the edit form of a sheet
save_btn(sheet, st, f, e, o) ==
  LET df == st[sheet]
      selected == df[e.pos + 1]
      new_name == IF e.typedName THEN e.name ELSE EditDefaultName(sheet, selected)
      new_value ==
        IF e.typedValue THEN e.value ELSE EditDefaultValue(sheet, selected)
  IN IF strip(new_name) = <<>>
     THEN Result(st, f, FALSE, "EmptyField", "none")
     ELSE IF EditValidatesNumber(sheet) /\ ~validate_positive_number(new_value)
     THEN Result(st, f, FALSE, "NegativeValue", "none")
     ELSE LET st2 == [st EXCEPT ![sheet] =
                        set_at(df, e.pos, EditStoredName(sheet, new_name),
                               new_value)]
              w == save_data(st2, f, o)
          IN Result(st2, w.f, EditReruns(sheet), "none", w.io)

\* `if delete_btn:` of the edit form of a sheet
delete_btn(sheet, st, f, e, o) ==
  LET df == st[sheet]
      st2 == [st EXCEPT ![sheet] = drop(df, e.pos)]
      w == save_data(st2, f, o)
  IN Result(st2, w.f, TRUE, "none", w.io)

\* One manage_* function, entered with the result r of the run so far: its
\* add form and, when df is not empty, its edit form.  Only the form whose
\* button was pressed acts.
manage(sheet, r, e, o) ==
  IF e.sheet # sheet THEN r
  ELSE IF e.kind = "add" THEN add_form(sheet, r.st, r.f, e, o)
  ELSE IF e.kind = "save" /\ r.st[sheet] # <<>>
       THEN save_btn(sheet, r.st, r.f, e, o)
  ELSE IF e.kind = "delete" /\ r.st[sheet] # <<>>
       THEN delete_btn(sheet, r.st, r.f, e, o)
  ELSE r

manage_bank_accounts(r, e, o) == manage(SHEET_BANK, r, e, o)

manage_mutual_funds(r, e, o) == manage(SHEET_MUTUAL, r, e, o)

manage_stock_holdings(r, e, o) == manage(SHEET_STOCKS, r, e, o)

manage_udhari(r, e, o) == manage(SHEET_UDHARI, r, e, o)

manage_provision_fund(r, e, o) == manage(SHEET_PF, r, e, o)

\* The tabs of main() from tabs[1] on, then the Refresh button.  The tabs
\* run in order and st.rerun() in one ends the run; as one run carries one
\* button press, only the tab of the pressed form does anything.
tabs(st, f, e, o) ==
  LET r0 == Result(st, f, FALSE, "none", "none")
  IN CASE e.sheet = SHEET_BANK -> manage_bank_accounts(r0, e, o)
       [] e.sheet = SHEET_MUTUAL -> manage_mutual_funds(r0, e, o)
       [] e.sheet = SHEET_STOCKS -> manage_stock_holdings(r0, e, o)
       [] e.sheet = SHEET_UDHARI -> manage_udhari(r0, e, o)
       [] e.sheet = SHEET_PF -> manage_provision_fund(r0, e, o)
       [] e.kind = "refresh" -> Result(st, f, TRUE, "none", "none")
       [] OTHER -> r0

\* `if uploaded_excel is not None:` of main()
upload_block(st, f, uploaded_excel, o) ==
  IF uploaded_excel.kind = "absent" THEN Result(st, f, FALSE, "none", "none")
  ELSE IF uploaded_excel.kind = "corrupt"
  THEN Result(st, f, FALSE, "ImportFailure", "none")
  ELSE LET r == read_sheets(st, uploaded_excel, 1)
       IN IF ~r.ok THEN Result(r.st, f, FALSE, "ImportFailure", "none")
          ELSE IF o = "ok" THEN Result(r.st, uploaded_excel, TRUE, "none", "ok")
          ELSE IF o = "denied"
          THEN Result(r.st, f, FALSE, "ImportFailure", "none")
          ELSE Result(r.st, Corrupt, FALSE, "ImportFailure", "none")

\* ------------------------------------------------------------------ state
VARIABLES
  session,         \* st.session_state: the five dataframes
  file,            \* the backing file EXCEL_FILE
  uploaded_excel,  \* the file held by the st.file_uploader widget
  pc,              \* "idle": the run is over, the page waits for the user;
                   \* "tabs": the run is past load_data(), at st.tabs;
                   \* "rerun": st.rerun() ended the run, the next is due
  clicked,         \* at "tabs": whether a button press started this run
  ev,              \* the event the tabs of the last run handled
  report,          \* what the last run showed with st.error / st.success
  overview,        \* what financial_overview() last put on the page
  faults           \* I/O failures so far

vars ==
  <<session, file, uploaded_excel, pc, clicked, ev, report, overview, faults>>

Report(import, load, err, io) ==
  [import |-> import, load |-> load, err |-> err, io |-> io]

\* The files a user uploads: a workbook with all five sheets, and one that
\* lacks the Udhari sheet.
SnapshotData ==
  [s \in SheetSet |-> IF s = SHEET_BANK THEN <<Row(<<"a">>, MaxVal)>> ELSE <<>>]

Snapshot(has) ==
  Workbook("xlsx", has, [s \in SheetSet |-> IF s \in has THEN SnapshotData[s] ELSE <<>>])

Snapshots == {Snapshot(SheetSet), Snapshot(SheetSet \ {SHEET_UDHARI})}

Init ==
  /\ session = EmptyLedgers
  /\ file = NoFile
  /\ uploaded_excel = NoFile
  /\ pc = "idle"
  /\ clicked = FALSE
  /\ ev = NoEvent
  /\ report = Report("none", "none", "none", "none")
  /\ overview = NothingShown
  /\ faults = 0

\* Whether the upload block gets as far as writing the backing file.
UploadWrites(st, up) == up.kind = "xlsx" /\ read_sheets(st, up, 1).ok

\* main() from its first line to load_data(), with `up` in the uploader.
Top(up, click) ==
  \E o \in WriteOutcomes :
    LET u == upload_block(session, file, up, o)
        l == load_data(u.st, u.f)
    IN /\ o # "ok" => UploadWrites(session, up) /\ faults < MaxFaults
       /\ faults' = IF o # "ok" THEN faults + 1 ELSE faults
       /\ uploaded_excel' = up
       /\ file' = u.f
       /\ ev' = NoEvent
       /\ overview' = overview
       /\ IF u.rerun
          THEN /\ session' = u.st
               /\ pc' = "rerun"
               /\ clicked' = FALSE
               /\ report' = Report("ok", "none", "none", "none")
          ELSE /\ session' = l.st
               /\ pc' = "tabs"
               /\ clicked' = click
               /\ report' = Report(u.err, l.err, "none", "none")

\* main() from st.tabs on, in a run that carries event e: the overview, the
\* five manage_* tabs, the Refresh button.
Tabs(e) ==
  /\ pc = "tabs"
  /\ \E o \in WriteOutcomes :
       LET r == tabs(session, file, e, o)
       IN /\ o # "ok" => r.io # "none" /\ faults < MaxFaults
          /\ faults' = IF o # "ok" THEN faults + 1 ELSE faults
          /\ session' = r.st
          /\ file' = r.f
          /\ pc' = IF r.rerun THEN "rerun" ELSE "idle"
          /\ report' = [report EXCEPT !.err = r.err, !.io = r.io]
  /\ ev' = e
  /\ clicked' = FALSE
  /\ overview' = financial_overview(session)
  /\ UNCHANGED uploaded_excel

\* The user presses a button of the page, which starts a run.
Press == pc = "idle" /\ Top(uploaded_excel, TRUE)

\* The run that st.rerun() asked for.
Rerun == pc = "rerun" /\ Top(uploaded_excel, FALSE)

\* The user puts a file into the uploader, or takes it out; either starts a
\* run, also while a rerun is due.
Upload ==
  /\ pc \in {"idle", "rerun"}
  /\ \E up \in Snapshots : up # uploaded_excel /\ Top(up, FALSE)

ClearUpload ==
  /\ pc \in {"idle", "rerun"}
  /\ uploaded_excel # NoFile
  /\ Top(NoFile, FALSE)

\* A run in which no button is pressed only renders.
Render == ~clicked /\ Tabs(NoEvent)

AddSubmitted ==
  /\ clicked
  /\ TotalRows(session) < MaxRows
  /\ \E sheet \in SheetSet, name \in TextInputs :
       \E value \in number_input(AddMinValue(sheet)) :
         Tabs(Event("add", sheet, 0, name, value, TRUE, TRUE))

\* The selectbox offers df.index; the edit form is there when df is not
\* empty.
SaveChanges ==
  /\ clicked
  /\ \E sheet \in SheetSet, typedName, typedValue \in BOOLEAN :
       \E pos \in 0..(Len(session[sheet]) - 1),
          name \in IF typedName THEN TextInputs ELSE {<<>>},
          value \in IF typedValue THEN number_input({0}) ELSE {0} :
         Tabs(Event("save", sheet, pos, name, value, typedName, typedValue))

Delete ==
  /\ clicked
  /\ \E sheet \in SheetSet :
       \E pos \in 0..(Len(session[sheet]) - 1) :
         Tabs(Event("delete", sheet, pos, <<>>, 0, FALSE, FALSE))

Refresh == clicked /\ Tabs(Event("refresh", "", 0, <<>>, 0, FALSE, FALSE))

Next ==
  \/ Press
  \/ Rerun
  \/ Upload
  \/ ClearUpload
  \/ Render
  \/ AddSubmitted
  \/ SaveChanges
  \/ Delete
  \/ Refresh

Spec == Init /\ [][Next]_vars

\* A run of the script is synchronous: once started it goes on to its end,
\* and the run st.rerun() asks for is started by the framework. What the
\* user does (Press, Upload, ClearUpload) is under no fairness.
RunProceeds == Render \/ AddSubmitted \/ SaveChanges \/ Delete \/ Refresh

LiveSpec == Spec /\ WF_vars(Rerun) /\ WF_vars(RunProceeds)

\* ================================================================= claims
\* The event the tabs handle in a step, and the ledger it is about before
\* and after the step.
Handles(kind) == pc = "tabs" /\ ev'.kind = kind

Blank(text) == strip(text) = <<>>

\* C1 (as amended) -- An add whose candidate has a negative number is
\* rejected and leaves the ledgers and the backing file as they are; the
\* reason is NegativeValue when the text field is not blank and EmptyField
\* when it is.  An add of a valid candidate to an empty ledger yields
\* exactly one row, holding the candidate.
C1_NegativeAddRejected ==
  [][Handles("add") =>
       LET s == ev'.sheet
       IN /\ ev'.value < 0 =>
               /\ session' = session
               /\ file' = file
               /\ report'.err =
                    IF Blank(ev'.name) THEN "EmptyField" ELSE "NegativeValue"
          /\ (ev'.value >= 0 /\ ~Blank(ev'.name) /\ session[s] = <<>>) =>
               /\ report'.err = "none"
               /\ Len(session'[s]) = 1
               /\ session'[s][1].value = ev'.value
               /\ strip(session'[s][1].name) = strip(ev'.name)]_vars

\* C1 witness: a negative candidate with a name was rejected with
\* NegativeValue and its ledger is still empty.
C1_Witness ==
  /\ ev.kind = "add" /\ ev.value < 0 /\ ~Blank(ev.name)
  /\ report.err = "NegativeValue"
  /\ session[ev.sheet] = <<>>

\* C1 as stated: every add whose candidate has a negative number is
\* rejected with NegativeValue and leaves the ledger unchanged.
C1_Original ==
  [][(Handles("add") /\ ev'.value < 0) =>
       /\ report'.err = "NegativeValue"
       /\ session'[ev'.sheet] = session[ev'.sheet]]_vars

\* The text an add or save event hands to the handler.
TextOf(e, df) ==
  IF e.kind = "save" /\ ~e.typedName THEN df[e.pos + 1].name ELSE e.name

\* C2 -- An add or a save whose text field is empty or whitespace-only is
\* rejected with EmptyField, also when its number is negative, and changes
\* neither the in-memory ledgers nor the backing file.
C2_EmptyFieldFirst ==
  [][((Handles("add") \/ Handles("save"))
        /\ Blank(TextOf(ev', session[ev'.sheet]))) =>
       /\ report'.err = "EmptyField"
       /\ session' = session
       /\ file' = file]_vars

\* C2 witness: a candidate both blank and negative was reported as
\* EmptyField.
C2_Witness ==
  /\ ev.kind = "add" /\ Blank(ev.name) /\ ev.value < 0
  /\ report.err = "EmptyField"

\* A stored text in normalised form.
Normalised(sheet, text) ==
  /\ text # <<>>
  /\ text[1] # " " /\ text[Len(text)] # " "
  /\ sheet = SHEET_STOCKS => \A i \in 1..Len(text) : text[i] # "a"

\* C3 -- Every stored text identity field is non-empty and has no leading
\* or trailing whitespace, and every StockHoldings symbol is upper-case.
C3_StoredTextNormalised ==
  \A s \in SheetSet : \A i \in 1..Len(session[s]) :
    Normalised(s, session[s][i].name)

\* C4 -- A delete at position p removes exactly that row and keeps the
\* others in order at positions 0..n-2; an accepted save at position p
\* changes the row at p and no other; the position the selectbox hands over
\* is inside [0, len).
C4_DeleteRenumbers ==
  [][(Handles("delete") \/ Handles("save")) =>
       LET s == ev'.sheet
           p == ev'.pos
           df == session[s]
           after == session'[s]
       IN /\ p \in 0..(Len(df) - 1)
          /\ \A t \in SheetSet \ {s} : session'[t] = session[t]
          /\ Handles("delete") =>
               /\ Len(after) = Len(df) - 1
               /\ \A k \in 0..(Len(df) - 2) :
                    after[k + 1] = IF k < p THEN df[k + 1] ELSE df[k + 2]
          /\ Handles("save") =>
               /\ Len(after) = Len(df)
               /\ \A k \in 0..(Len(df) - 1) : k # p => after[k + 1] = df[k + 1]]_vars

\* C4 witness: the middle row of three was deleted, leaving two different
\* rows.
C4_Witness ==
  /\ ev.kind = "delete" /\ ev.pos = 1
  /\ Len(session[ev.sheet]) = 2
  /\ session[ev.sheet][1] # session[ev.sheet][2]

\* C5 -- A run whose uploaded file lacks one of the five sheets reports
\* ImportFailure and leaves the five in-memory ledgers and the backing file
\* unchanged.
C5_FailedImportChangesNothing ==
  [][((pc \in {"idle", "rerun"}) /\ pc' = "tabs"
        /\ uploaded_excel'.kind = "xlsx" /\ uploaded_excel'.has # SheetSet) =>
       /\ report'.import = "ImportFailure"
       /\ session' = session
       /\ file' = file]_vars

\* C6 -- After an accepted mutation whose save failed, the mutated ledgers
\* are what the next run works on.
C6_UnsavedMutationKept ==
  [][((pc \in {"idle", "rerun"}) /\ report.io = "SaveFailure"
        /\ uploaded_excel' = NoFile) =>
       session' = session]_vars

\* C7 -- After load_data(), in a run with no file in the uploader, the
\* five ledgers are the contents of the backing file, or all five are empty
\* when the file is missing, unreadable or incomplete.
C7_LoadAllOrEmpty ==
  [][((pc \in {"idle", "rerun"}) /\ pc' = "tabs"
        /\ uploaded_excel = NoFile /\ uploaded_excel' = NoFile) =>
       session' = IF file'.kind = "xlsx" /\ file'.has = SheetSet
                  THEN file'.data
                  ELSE EmptyLedgers]_vars

\* C8 -- After a save, failed or not, the backing file holds the complete
\* previous ledger set or the complete new one.
C8_SaveNeverPartial ==
  [][(pc = "tabs" /\ report'.io # "none") =>
       \/ file' = file
       \/ file' = Written(session', Len(SheetOrder))]_vars

\* The sum of a ledger's value column, position by position.
RECURSIVE ColumnSum(_, _)
ColumnSum(df, n) == IF n = 0 THEN 0 ELSE ColumnSum(df, n - 1) + df[n].value

Total(st, s) == ColumnSum(st[s], Len(st[s]))

ExampleLedgers ==
  [s \in SheetSet |->
     <<Row(<<"a">>,
           CASE s = SHEET_BANK -> 100 [] s = SHEET_MUTUAL -> 50
             [] s = SHEET_STOCKS -> 25 [] s = SHEET_UDHARI -> 10
             [] OTHER -> 5)>>]

C10_UntouchedSaveKeepsRecord ==
  [][(Handles("save") /\ report'.err = "none" /\ ~ev'.typedValue) =>
       LET s == ev'.sheet
           p == ev'.pos
       IN /\ session'[s][p + 1].value = session[s][p + 1].value
          /\ ~ev'.typedName => session'[s][p + 1] = session[s][p + 1]]_vars

\* C11 -- Every user action ends in a completed render: whenever a run is
\* under way or a rerun is due, the page is eventually rendered to its end
\* and waits for the user again; a successfully imported snapshot is applied
\* once and is not applied again while it stays in the uploader.
\* Refuted under LiveSpec: the upload block runs in every run in which the
\* uploader holds a file, so the run that st.rerun() asks for after a
\* successful import imports the same file again and asks for a rerun
\* again; that run leaves every variable as it found it, and the tabs are
\* never reached until the user takes the file out.
C11_ActionEndsRendered == (pc # "idle") ~> (pc = "idle")
====
